---- MODULE Spec2Model ----
(***************************************************************************)
(* Session concurrency and notification core of the chat-session server:   *)
(* backend/state.py (session store, task registry), backend/socket_routes  *)
(* (connection handlers, the turn task process_agent_response),            *)
(* backend/agent.py (CustomRunner.run) and backend/tools (the tool call    *)
(* tracker send_tool_notification and the tool bodies that call it).       *)
(*                                                                         *)
(* Scheduling is asyncio's: one coroutine runs at a time and control       *)
(* changes hands only at an await.  A turn sits at a label that names the  *)
(* await it is suspended in; `running` names the coroutine that holds the  *)
(* event loop while it runs synchronous code between two awaits.  An emit  *)
(* hands its event to the sink when it is called and then suspends;        *)
(* Task.cancel() raises CancelledError at the await the task is suspended  *)
(* in.  The agent runtime (Runner.run) and the sink are external to the    *)
(* repository.  The runtime awaits a single tool call in the turn's own    *)
(* task, or runs a batch of two calls concurrently and waits for both; its *)
(* outcomes (which tools, return, raise) are nondeterministic.             *)
(***************************************************************************)
EXTENDS Integers, Sequences, FiniteSets, TLC

\* ---------------------------------------------------------------- bounds
MaxTurns == 2
MaxCalls == 1
TrackerCalls == 2
MaxFails == 1
MaxCancels == 1
MaxClears == 1
MaxWords == 120

Users == {"u1", "u2"}
Conns == {"c1", "c2"}
TurnIds == 1..MaxTurns
NoUser == "none"
NoTool == "none"
NoUuid == << >>
FrameIds == {1, 2}
\* nobody holds the event loop; << t, 0 >> is the body of turn t and
\* << t, f >> the tool call in frame f of turn t
Idle == << 0, 0 >>

\* word counts of the runtime's final text that the model draws from
Words == {0, 7}

\* ---------------------------------------------------------------- tools
\* A tool body is the list of its steps that touch the tracker or may raise:
\*   kind "start"    : await send_tool_notification(context, name, "starting")
\*   kind "complete" : a completion notification for name; bare = TRUE when
\*                     the await sits in a `try: ... except: pass`
\*   kind "body"     : synchronous code that may raise (requests.post,
\*                     json.dumps)
\*   kind "ext"      : an await on an external call that may raise
Op(kind, name, bare) == [kind |-> kind, name |-> name, bare |-> bare]

\* the tool returns without its completion notification
text_to_sql_try_silent ==
    << Op("start", "text_to_sql", FALSE), Op("body", "", FALSE) >>

text_to_sql_try ==
    << Op("start", "text_to_sql", FALSE), Op("body", "", FALSE),
       Op("complete", "text_to_sql", FALSE) >>

text_to_sql_except == << Op("complete", "text_to_sql", FALSE) >>

text_to_python_try ==
    << Op("start", "text_to_python", FALSE), Op("body", "", FALSE),
       Op("complete", "text_to_python", FALSE) >>
text_to_python_except == << Op("complete", "text_to_python", TRUE) >>

search_web_try ==
    << Op("start", "search_web", FALSE), Op("start", "web_search", FALSE),
       Op("ext", "", FALSE), Op("complete", "web_search", FALSE),
       Op("body", "", FALSE), Op("complete", "search_web", FALSE) >>
search_web_except ==
    << Op("complete", "web_search", TRUE), Op("complete", "search_web", FALSE) >>

searching_try == << Op("start", "searching", FALSE), Op("body", "", FALSE) >>
searching_except == << >>

forecasting_try == << Op("start", "forecasting", FALSE), Op("body", "", FALSE) >>
forecasting_except == << >>

marketing_mix_model_try ==
    << Op("start", "marketing_mix_model", FALSE), Op("body", "", FALSE) >>
marketing_mix_model_except == << >>

answer_nlq_question_try ==
    << Op("start", "answer_nlq_question", FALSE), Op("body", "", FALSE) >>
answer_nlq_question_except == << >>

preload_dashboard_data_try ==
    << Op("start", "preload_dashboard_data", FALSE), Op("body", "", FALSE),
       Op("complete", "preload_dashboard_data", FALSE) >>
preload_dashboard_data_except == << Op("complete", "preload_dashboard_data", FALSE) >>

vision_try ==
    << Op("start", "vision", FALSE), Op("body", "", FALSE),
       Op("complete", "vision", FALSE) >>
vision_except == << Op("complete", "vision", FALSE) >>

\* the tools the specifications of the tracker draw from
Tools == {"text_to_sql", "text_to_python", "search_web", "searching"}

\* agent.moby_agent.tools: every tool the runtime may call
Registry ==
    Tools \cup {"forecasting", "marketing_mix_model", "answer_nlq_question",
                "preload_dashboard_data", "vision"}

ToolNames == Registry \cup {"web_search"}

ToolTry(tool) ==
    CASE tool = "text_to_sql"            -> text_to_sql_try
      [] tool = "text_to_python"         -> text_to_python_try
      [] tool = "search_web"             -> search_web_try
      [] tool = "forecasting"            -> forecasting_try
      [] tool = "marketing_mix_model"    -> marketing_mix_model_try
      [] tool = "answer_nlq_question"    -> answer_nlq_question_try
      [] tool = "preload_dashboard_data" -> preload_dashboard_data_try
      [] tool = "vision"                 -> vision_try
      [] OTHER                           -> searching_try

ToolExcept(tool) ==
    CASE tool = "text_to_sql"            -> text_to_sql_except
      [] tool = "text_to_python"         -> text_to_python_except
      [] tool = "search_web"             -> search_web_except
      [] tool = "forecasting"            -> forecasting_except
      [] tool = "marketing_mix_model"    -> marketing_mix_model_except
      [] tool = "answer_nlq_question"    -> answer_nlq_question_except
      [] tool = "preload_dashboard_data" -> preload_dashboard_data_except
      [] tool = "vision"                 -> vision_except
      [] OTHER                           -> searching_except

\* ---------------------------------------------------------------- state
VARIABLES
    user_contexts,   \* state.user_contexts: user -> persistent context
    chat_histories,  \* state.chat_histories: user -> list of messages
    active_tasks,    \* state.active_tasks: sid -> list of turn tasks
    task,            \* the turn tasks (asyncio.Task of process_agent_response)
    run_context,     \* the context dict CustomRunner.run hands to the runtime
    wire,            \* per turn, the stream_update events it emitted
    cancel_req,      \* the cancel_stream handler invocations
    connected,       \* sid -> the client is still connected
    running,         \* the coroutine that holds the event loop, or Idle
    faults,          \* number of emits the sink may still fail
    clears,          \* number of clear_chat_history requests so far
    frames           \* per turn, the tool calls the runtime is awaiting

vars == << user_contexts, chat_histories, active_tasks, task, run_context,
           wire, cancel_req, connected, running, faults, clears, frames >>

\* ---------------------------------------------------------------- values
Msg(role, content, by) == [role |-> role, content |-> content, by |-> by]

\* an emitted event; sent: the sink accepted it for a connected client
Ev(type, tool, status, n) ==
    [type |-> type, tool |-> tool, status |-> status, n |-> n, sent |-> TRUE]

\* a user's persistent context.  tracked: the keys tool_call_counters and
\* active_tool_calls exist in it (a tool of a /chat turn created them);
\* sent_ref: the turn that created its sent_tool_notifications dict, 0 for
\* none; global_tool_counter: -1 while the key is absent
NoContext ==
    [ created |-> FALSE, global_tool_counter |-> -1, sent_ref |-> 0,
      tracked |-> FALSE,
      tool_call_counters |-> [n \in ToolNames |-> << >>],
      active_tool_calls |-> {},
      current_tool_call_uuid |-> NoUuid ]

EmptyRunContext ==
    [ global_tool_counter |-> -1,
      tool_call_counters  |-> [n \in ToolNames |-> << >>],
      active_tool_calls   |-> {},
      current_tool_call_uuid |-> NoUuid,
      sent_tool_notifications |-> {},
      socket |-> FALSE,
      shared |-> FALSE,
      persistent |-> FALSE ]

\* result.final_output as format_agent_response sees it. kind: "absent"
\* (the result has no final_output), "none", "dict", "model" (has
\* model_dump or dict), "str" or "object"; each of the fields message,
\* response and content is missing, holds a text or holds a value that is
\* not a string; serializable: json.dumps accepts the mapping
FieldValues == {"missing", "text", "nontext"}
NoOutput ==
    [ kind |-> "unset", message |-> "missing", response |-> "missing",
      content |-> "missing", serializable |-> TRUE ]

NoTask ==
    [ pc |-> "unused", sid |-> "none", user |-> NoUser, must_cancel |-> FALSE,
      cancelling |-> FALSE, par |-> FALSE, ncalls |-> 0, uuids |-> 0,
      words |-> 0, sent_chunks |-> 0, input |-> << >>,
      final_output |-> NoOutput, text |-> "" ]

\* a tool call in progress: the tool, its position (phase, ip) in the tool
\* body, and the pair of the notification whose emit it is suspended in
NoFrame ==
    [ pc |-> "idle", tool |-> NoTool, phase |-> "none", ip |-> 0,
      call_name |-> NoTool, call_id |-> 0 ]

NoCancel == [pc |-> "unused", sid |-> "none", data |-> NoUser, cancelled |-> {}]

Finished == {"done", "failed", "cancelled"}

InitFor(fb) ==
    /\ user_contexts = [u \in Users |-> NoContext]
    /\ chat_histories = [u \in Users |-> << >>]
    /\ active_tasks = [c \in Conns |-> << >>]
    /\ task = [t \in TurnIds |-> NoTask]
    /\ run_context = [t \in TurnIds |-> EmptyRunContext]
    /\ wire = [t \in TurnIds |-> << >>]
    /\ cancel_req = [k \in 1..MaxCancels |-> NoCancel]
    /\ connected = [c \in Conns |-> TRUE]
    /\ running = Idle
    /\ faults = fb
    /\ clears = 0
    /\ frames = [t \in TurnIds |-> [f \in FrameIds |-> NoFrame]]

Init == InitFor(MaxFails)

\* ------------------------------------------------------- session store
\* state.get_or_create_user_context: a first visit creates the context and
\* (re)sets the history list
get_or_create_history(u) ==
    IF user_contexts[u].created THEN chat_histories[u] ELSE << >>

\* the message is dropped
add_message_to_history_drop(h, u, role, content, by) == h

add_message_to_history(h, u, role, content, by) ==
    [h EXCEPT ![u] = Append(@, Msg(role, content, by))]

\* every user's list is emptied
clear_chat_history_all(h, u) == [v \in Users |-> << >>]

clear_chat_history(h, u) == [h EXCEPT ![u] = << >>]

\* state.get_chat_history: the user's list, empty for an unknown user
get_chat_history(h, u) == h[u]

\* the system entries are handed on as well
format_history_for_agent_all(h, u) ==
    [i \in 1..Len(h[u]) |->
        [role |-> h[u][i].role, content |-> << h[u][i].content, h[u][i].by >>]]

\* state.format_history_for_agent: the user and assistant entries, in
\* order, as role and content (the text of an entry is its content and the
\* turn that wrote it)
format_history_for_agent(h, u) ==
    LET kept == SelectSeq(h[u], LAMBDA m : m.role \in {"user", "assistant"})
    IN  [i \in 1..Len(kept) |->
            [role |-> kept[i].role, content |-> << kept[i].content, kept[i].by >>]]

\* input_list = format_history_for_agent(user_id); `if not input_list:
\* input_list = message`, the bare message of turn t
RuntimeInput(h, u, t) ==
    IF format_history_for_agent(h, u) = << >>
    THEN << "message", t >>
    ELSE format_history_for_agent(h, u)

\* --------------------------------------------------------- task registry
\* the task is appended twice
register_active_task_twice(at, sid, t) == [at EXCEPT ![sid] = Append(Append(@, t), t)]

register_active_task(at, sid, t) == [at EXCEPT ![sid] = Append(@, t)]

Listed(at, sid) == {at[sid][i] : i \in DOMAIN at[sid]}

\* Task.cancel(): no effect on a finished task; otherwise CancelledError is
\* raised at the await the task is suspended in, when it next runs
TaskCancel(tk) ==
    IF tk.pc \in Finished THEN tk
    ELSE [tk EXCEPT !.must_cancel = TRUE, !.cancelling = TRUE]

\* state.cancel_active_tasks: the tasks after cancel(), the registry after
CancelTargets(at, sid) == Listed(at, sid)

\* the list is left as it was
cancel_active_tasks_keep(at, sid) == at

cancel_active_tasks(at, sid) == [at EXCEPT ![sid] = << >>]

\* True is returned whatever the list holds
cancel_active_tasks_returns_true(at, sid) == TRUE

\* the return value of state.cancel_active_tasks: the list was not empty
cancel_active_tasks_returns(at, sid) == at[sid] # << >>

remove_active_task(at, sid, t) ==
    [at EXCEPT ![sid] = SelectSeq(@, LAMBDA x : x # t)]

\* ------------------------------------------------------------- the sink
\* sio.emit(..., room=sid) called by turn t: the event reaches the client
\* when the emit does not raise (ok) and the sid is still connected
Deliver(t, e, ok) ==
    [wire EXCEPT ![t] = Append(@, [e EXCEPT !.sent = ok /\ connected[task[t].sid]])]

\* the events of turn t that reached its client
Delivered(t) == SelectSeq(wire[t], LAMBDA e : e.sent)

\* an emit goes through, or (while the fault budget lasts) raises
EmitOutcomes == IF faults > 0 THEN {TRUE, FALSE} ELSE {TRUE}

\* an emit made by the turn body (process_agent_response): the event is
\* handed over and the turn suspends at okpc, or the emit raises and the
\* turn goes on, without suspending, into its `except Exception` handler
TurnEmit(t, tk, e, okpc) ==
    \E ok \in EmitOutcomes :
        /\ faults' = IF ok THEN faults ELSE faults - 1
        /\ wire' = Deliver(t, e, ok)
        /\ task' = [task EXCEPT ![t] = [tk EXCEPT !.pc = IF ok THEN okpc ELSE "exc"]]
        /\ running' = IF ok THEN Idle ELSE << t, 0 >>

\* ------------------------------------------------------------ chunking
Min(a, b) == IF a < b THEN a ELSE b
Max(a, b) == IF a > b THEN a ELSE b

\* every chunk holds ten words
ChunkSize_ten(w) == 10

\* chunk_size = min(max(len(words) // 10, 5), 10); if chunk_size < 1: 1
ChunkSize(w) ==
    LET c == Min(Max(w \div 10, 5), 10) IN IF c < 1 THEN 1 ELSE c

\* len(chunks) for range(0, len(words), chunk_size)
NumChunks(w) == (w + ChunkSize(w) - 1) \div ChunkSize(w)

\* the last chunk is counted as a full one
PrefixWords_full(w, k) == k * ChunkSize(w)

\* words in accumulated_text after k chunks
PrefixWords(w, k) == Min(k * ChunkSize(w), w)

\* the content event is sent at once and the loop goes on
StreamNext_repeat(t, tk) ==
    TurnEmit(t, tk, Ev("content", "", "", tk.words), "part_sleep")

\* the streaming loop: the next partial, or the final content event
StreamNext(t, tk) ==
    IF tk.sent_chunks < NumChunks(tk.words)
    THEN TurnEmit(t, [tk EXCEPT !.sent_chunks = @ + 1],
                  Ev("partial", "", "", PrefixWords(tk.words, tk.sent_chunks + 1)),
                  "part_emit")
    ELSE TurnEmit(t, tk, Ev("content", "", "", tk.words), "content_emit")

\* ------------------------------------------------------- chat_request
FreshTurn(mt) ==
    { t \in 1..mt : task[t].pc = "unused" /\ \A s \in 1..(t-1) : task[s].pc # "unused" }

\* chat_request up to its first await: session lookup, history append and
\* the initial loading emit
ChatRequest(c, u, mt) ==
    /\ running = Idle
    /\ connected[c]
    /\ \E t \in FreshTurn(mt) : \E ok \in EmitOutcomes :
        /\ user_contexts' = [user_contexts EXCEPT ![u].created = TRUE]
        /\ chat_histories' =
              [chat_histories EXCEPT
                  ![u] = Append(get_or_create_history(u), Msg("user", "message", t))]
        /\ faults' = IF ok THEN faults ELSE faults - 1
        /\ task' = [task EXCEPT ![t] =
              [NoTask EXCEPT !.pc = IF ok THEN "req_emit" ELSE "aborted",
                             !.sid = c, !.user = u,
                             !.input = RuntimeInput(chat_histories', u, t)]]
        /\ wire' = [wire EXCEPT ![t] =
              Append(@, [Ev("loading", "", "Processing", 0) EXCEPT !.sent = ok])]
    /\ UNCHANGED << active_tasks, run_context, cancel_req, connected, running, clears, frames >>

\* the task is created and left out of the registry
ChatRequestResume_unregistered(t) ==
    /\ running = Idle
    /\ task[t].pc = "req_emit"
    /\ task' = [task EXCEPT ![t].pc = "start"]
    /\ UNCHANGED << user_contexts, chat_histories, active_tasks, run_context, wire,
                    cancel_req, connected, running, faults, clears, frames >>

\* chat_request after the loading emit: create the task and register it
ChatRequestResume(t) ==
    /\ running = Idle
    /\ task[t].pc = "req_emit"
    /\ task' = [task EXCEPT ![t].pc = "start"]
    /\ active_tasks' = register_active_task(active_tasks, task[t].sid, t)
    /\ UNCHANGED << user_contexts, chat_histories, run_context, wire, cancel_req,
                    connected, running, faults, clears, frames >>

\* ----------------------------------------------- process_agent_response
\* first run of the task: the "Generating response..." loading emit
TaskStart(t) ==
    /\ running = Idle
    /\ task[t].pc = "start"
    /\ ~task[t].must_cancel
    /\ TurnEmit(t, task[t], Ev("loading", "", "Generating", 0), "gen_emit")
    /\ UNCHANGED << user_contexts, chat_histories, active_tasks, run_context,
                    cancel_req, connected, clears, frames >>

\* CustomRunner.run: run_context = dict(context), a copy of the persistent
\* context with socket and sid added; the tracker works on the copy
CopyContext(u) ==
    [EmptyRunContext EXCEPT
        !.global_tool_counter = user_contexts[u].global_tool_counter,
        !.tool_call_counters = user_contexts[u].tool_call_counters,
        !.active_tool_calls = user_contexts[u].active_tool_calls,
        !.current_tool_call_uuid = user_contexts[u].current_tool_call_uuid,
        !.shared = user_contexts[u].tracked,
        !.socket = TRUE]

\* after the loading emit: reset sent_tool_notifications in the persistent
\* context, build the run context and enter the runtime
RunAgent(t) ==
    /\ running = Idle
    /\ task[t].pc = "gen_emit"
    /\ ~task[t].must_cancel
    /\ user_contexts' = [user_contexts EXCEPT ![task[t].user].sent_ref = t]
    /\ run_context' = [run_context EXCEPT ![t] = CopyContext(task[t].user)]
    /\ task' = [task EXCEPT ![t].pc = "rt"]
    /\ UNCHANGED << chat_histories, active_tasks, wire, cancel_req, connected,
                    running, faults, clears, frames >>

\* the runtime returns a final text of w words: chunk it and start streaming
RtReturn(t, w) ==
    /\ running = Idle
    /\ task[t].pc = "rt"
    /\ task[t].sid \in Conns
    /\ ~task[t].must_cancel
    /\ StreamNext(t, [task[t] EXCEPT !.words = w, !.sent_chunks = 0])
    /\ UNCHANGED << user_contexts, chat_histories, active_tasks, run_context,
                    cancel_req, connected, clears, frames >>

\* the runtime raises
RtRaise(t) ==
    /\ running = Idle
    /\ task[t].pc = "rt"
    /\ task[t].sid \in Conns
    /\ ~task[t].must_cancel
    /\ task' = [task EXCEPT ![t].pc = "exc"]
    /\ running' = << t, 0 >>
    /\ UNCHANGED << user_contexts, chat_histories, active_tasks, run_context, wire,
                    cancel_req, connected, faults, clears, frames >>

\* after a partial emit: await asyncio.sleep(0.05)
PartEmitResume(t) ==
    /\ running = Idle
    /\ task[t].pc = "part_emit"
    /\ ~task[t].must_cancel
    /\ task' = [task EXCEPT ![t].pc = "part_sleep"]
    /\ UNCHANGED << user_contexts, chat_histories, active_tasks, run_context, wire,
                    cancel_req, connected, running, faults, clears, frames >>

\* the sleep between two partial events never returns
PartSleepResume_stay(t) ==
    /\ running = Idle
    /\ task[t].pc = "part_sleep"
    /\ ~task[t].must_cancel
    /\ UNCHANGED vars

PartSleepResume(t) ==
    /\ running = Idle
    /\ task[t].pc = "part_sleep"
    /\ ~task[t].must_cancel
    /\ StreamNext(t, task[t])
    /\ UNCHANGED << user_contexts, chat_histories, active_tasks, run_context,
                    cancel_req, connected, clears, frames >>

\* after the content emit: record the response and deregister
ContentEmitResume(t) ==
    /\ running = Idle
    /\ task[t].pc = "content_emit"
    /\ ~task[t].must_cancel
    /\ chat_histories' =
          add_message_to_history(chat_histories, task[t].user, "assistant", "response", t)
    /\ active_tasks' = remove_active_task(active_tasks, task[t].sid, t)
    /\ task' = [task EXCEPT ![t].pc = "done"]
    /\ UNCHANGED << user_contexts, run_context, wire, cancel_req, connected, running,
                    faults, clears, frames >>

\* except Exception: send the error event
ExcHandler(t) ==
    /\ running = << t, 0 >>
    /\ task[t].pc = "exc"
    /\ \E ok \in EmitOutcomes :
        /\ faults' = IF ok THEN faults ELSE faults - 1
        /\ wire' = Deliver(t, Ev("error", "", "", 0), ok)
        /\ task' = [task EXCEPT ![t].pc = IF ok THEN "err_emit" ELSE "failed"]
    /\ running' = Idle
    /\ UNCHANGED << user_contexts, chat_histories, active_tasks, run_context,
                    cancel_req, connected, clears, frames >>

\* after the error emit: record the error and deregister
ErrEmitResume(t) ==
    /\ running = Idle
    /\ task[t].pc = "err_emit"
    /\ ~task[t].must_cancel
    /\ chat_histories' =
          add_message_to_history(chat_histories, task[t].user, "system", "error", t)
    /\ active_tasks' = remove_active_task(active_tasks, task[t].sid, t)
    /\ task' = [task EXCEPT ![t].pc = "done"]
    /\ UNCHANGED << user_contexts, run_context, wire, cancel_req, connected, running,
                    faults, clears, frames >>

\* ------------------------------------------------- tool call tracker
\* tools/utils.send_tool_notification, the part before the emit

\* if 'global_tool_counter' not in user_context: user_context[...] = 0
\* (user_context is context.get('user_context', context): the run context)
InitCounter(rc) ==
    IF rc.global_tool_counter = -1 THEN [rc EXCEPT !.global_tool_counter = 0] ELSE rc

\* the call_id is taken but global_tool_counter is not advanced
StartCall_stale(rc, name, uuid) ==
    LET r  == InitCounter(rc)
        id == r.global_tool_counter + 1
    IN  [r EXCEPT !.tool_call_counters[name] = Append(@, id),
                  !.active_tool_calls = @ \cup {[uuid |-> uuid, tool |-> name, call_id |-> id]},
                  !.current_tool_call_uuid = uuid]

\* status == "starting": new uuid, next call_id, record the call
StartCall(rc, name, uuid) ==
    LET r  == InitCounter(rc)
        id == r.global_tool_counter + 1
    IN  [r EXCEPT !.global_tool_counter = id,
                  !.tool_call_counters[name] = Append(@, id),
                  !.active_tool_calls = @ \cup {[uuid |-> uuid, tool |-> name, call_id |-> id]},
                  !.current_tool_call_uuid = uuid]

ActiveHit(rc) ==
    {a \in rc.active_tool_calls : a.uuid = rc.current_tool_call_uuid}

\* the fallback takes the tool's first call_id
ResolveCallId_first(rc, name) ==
    IF rc.current_tool_call_uuid # NoUuid /\ ActiveHit(rc) # {}
    THEN (CHOOSE a \in ActiveHit(rc) : TRUE).call_id
    ELSE IF rc.tool_call_counters[name] # << >>
         THEN rc.tool_call_counters[name][1]
         ELSE 1

\* status == "completed": the call_id by uuid match, else the tool's latest
\* call_id, else 1
ResolveCallId(rc, name) ==
    IF rc.current_tool_call_uuid # NoUuid /\ ActiveHit(rc) # {}
    THEN (CHOOSE a \in ActiveHit(rc) : TRUE).call_id
    ELSE IF rc.tool_call_counters[name] # << >>
         THEN rc.tool_call_counters[name][Len(rc.tool_call_counters[name])]
         ELSE 1

\* del active_calls[call_uuid] on a uuid match
CompleteCall(rc) ==
    LET r == InitCounter(rc)
    IN  IF r.current_tool_call_uuid # NoUuid /\ ActiveHit(r) # {}
        THEN [r EXCEPT !.active_tool_calls = @ \ ActiveHit(r)]
        ELSE r

\* the context of turn t becomes rc.  dict(context) is a shallow copy:
\* tool_call_counters and active_tool_calls of a copy made from a tracked
\* persistent context (shared) are the persistent context's own dicts, and
\* the context of a /chat turn (persistent) is the persistent context
\* itself, so a write is seen by every turn of the user that holds the
\* same object
StoreContext(t, rc) ==
    LET u == task[t].user
        Sync(s) ==
            IF s = t THEN rc
            ELSE IF /\ task[s].user = u
                    /\ rc.persistent \/ rc.shared
                    /\ run_context[s].persistent \/ run_context[s].shared
                 THEN IF rc.persistent /\ run_context[s].persistent
                      THEN rc
                      ELSE [run_context[s] EXCEPT
                               !.tool_call_counters = rc.tool_call_counters,
                               !.active_tool_calls = rc.active_tool_calls]
                 ELSE run_context[s]
    IN  /\ run_context' = [s \in TurnIds |-> Sync(s)]
        /\ user_contexts' = [user_contexts EXCEPT ![u] =
              IF rc.persistent
              THEN [@ EXCEPT !.tracked = TRUE,
                             !.sent_ref = IF @ = 0 THEN t ELSE @,
                             !.global_tool_counter = rc.global_tool_counter,
                             !.tool_call_counters = rc.tool_call_counters,
                             !.active_tool_calls = rc.active_tool_calls,
                             !.current_tool_call_uuid = rc.current_tool_call_uuid]
              ELSE IF rc.shared
                   THEN [@ EXCEPT !.tool_call_counters = rc.tool_call_counters,
                                  !.active_tool_calls = rc.active_tool_calls]
                   ELSE @]

\* tool_call_key = f"{tool_name}_call_{call_id}"
ToolCallKey(name, id) == << name, "_call_", id >>

\* the duplicate check: only a "starting" already recorded as "starting"
IsDuplicate(rc, status, key) ==
    /\ status = "starting"
    /\ \E e \in rc.sent_tool_notifications : e.key = key /\ e.status = "starting"

\* sent_notifications[tool_call_key] = status
MarkSent(rc, key, status) ==
    [rc EXCEPT !.sent_tool_notifications =
        {e \in @ : e.key # key} \cup {[key |-> key, status |-> status]}]

\* ------------------------------------------------------- tool bodies
Program(fr) == IF fr.phase = "try" THEN ToolTry(fr.tool) ELSE ToolExcept(fr.tool)
AtEnd(fr) == fr.ip > Len(Program(fr))
CurOp(fr) == Program(fr)[fr.ip]
AtOp(t, f, kind) ==
    /\ running = << t, f >>
    /\ frames[t][f].pc = "tool_op"
    /\ ~AtEnd(frames[t][f])
    /\ CurOp(frames[t][f]).kind = kind
AdvanceOp(fr) == [fr EXCEPT !.ip = @ + 1, !.pc = "tool_op"]
EnterTool(tool) == [NoFrame EXCEPT !.pc = "tool_op", !.tool = tool, !.phase = "try", !.ip = 1]

\* a suspended tool call may run again: the loop is free and no
\* cancellation of its turn is pending
CanResume(t, f, pc) ==
    /\ running = Idle
    /\ task[t].pc = "tools"
    /\ frames[t][f].pc = pc
    /\ ~task[t].must_cancel

\* the runtime calls one tool and awaits it in the turn's task
RtInvoke(t, tool, mc) ==
    /\ running = Idle
    /\ task[t].pc = "rt"
    /\ ~task[t].must_cancel
    /\ task[t].ncalls < mc
    /\ task' = [task EXCEPT ![t] = [@ EXCEPT !.pc = "tools", !.ncalls = @ + 1]]
    /\ frames' = [frames EXCEPT ![t][1] = EnterTool(tool)]
    /\ running' = << t, 1 >>
    /\ UNCHANGED << user_contexts, chat_histories, active_tasks, run_context, wire,
                    cancel_req, connected, faults, clears >>

\* without a socket the notification raises into the tool
NotifyEmit_raise(t, f, rc, name, status, id, okpc) ==
    IF IsDuplicate(rc, status, ToolCallKey(name, id)) \/ ~rc.socket
    THEN /\ frames' = [frames EXCEPT ![t][f] = [@ EXCEPT !.phase = "except", !.ip = 1]]
         /\ UNCHANGED << wire, faults, running >>
    ELSE \E ok \in EmitOutcomes :
         /\ faults' = IF ok THEN faults ELSE faults - 1
         /\ wire' = Deliver(t, Ev("tool", name, status, id), ok)
         /\ frames' = [frames EXCEPT ![t][f] =
               IF ok THEN [@ EXCEPT !.pc = okpc, !.call_name = name, !.call_id = id]
               ELSE AdvanceOp(@)]
         /\ running' = IF ok THEN Idle ELSE << t, f >>

\* the emit of send_tool_notification: skipped (return False) on a
\* duplicate or without a socket; raising is caught inside and the tool
\* goes on; otherwise the tool suspends in the emit
NotifyEmit(t, f, rc, name, status, id, okpc) ==
    IF IsDuplicate(rc, status, ToolCallKey(name, id)) \/ ~rc.socket
    THEN /\ frames' = [frames EXCEPT ![t][f] = AdvanceOp(@)]
         /\ UNCHANGED << wire, faults, running >>
    ELSE \E ok \in EmitOutcomes :
         /\ faults' = IF ok THEN faults ELSE faults - 1
         /\ wire' = Deliver(t, Ev("tool", name, status, id), ok)
         /\ frames' = [frames EXCEPT ![t][f] =
               IF ok THEN [@ EXCEPT !.pc = okpc, !.call_name = name, !.call_id = id]
               ELSE AdvanceOp(@)]
         /\ running' = IF ok THEN Idle ELSE << t, f >>

\* await send_tool_notification(context, name, "starting")
ToolNotifyStart(t, f) ==
    /\ AtOp(t, f, "start")
    /\ LET name == CurOp(frames[t][f]).name
           uuid == << t, task[t].uuids + 1 >>
           rc   == StartCall(run_context[t], name, uuid)
       IN  /\ StoreContext(t, rc)
           /\ task' = [task EXCEPT ![t].uuids = @ + 1]
           /\ NotifyEmit(t, f, rc, name, "starting", rc.global_tool_counter, "ts_emit")
    /\ UNCHANGED << chat_histories, active_tasks, cancel_req, connected, clears >>

\* the starting emit returned: record it, then await asyncio.sleep(0.1)
StartEmitResume(t, f) ==
    /\ CanResume(t, f, "ts_emit")
    /\ run_context' = [run_context EXCEPT ![t] =
          MarkSent(@, ToolCallKey(frames[t][f].call_name, frames[t][f].call_id),
                   "starting")]
    /\ frames' = [frames EXCEPT ![t][f].pc = "ts_sleep"]
    /\ UNCHANGED << user_contexts, chat_histories, active_tasks, task, wire,
                    cancel_req, connected, running, faults, clears >>

StartSleepResume(t, f) ==
    /\ CanResume(t, f, "ts_sleep")
    /\ frames' = [frames EXCEPT ![t][f] = AdvanceOp(@)]
    /\ running' = << t, f >>
    /\ UNCHANGED << user_contexts, chat_histories, active_tasks, task, run_context,
                    wire, cancel_req, connected, faults, clears >>

\* a completion notification (send_tool_completion_notification, or
\* send_tool_notification(context, name, "completed"))
ToolNotifyComplete(t, f) ==
    /\ AtOp(t, f, "complete")
    /\ LET name == CurOp(frames[t][f]).name
           id   == ResolveCallId(InitCounter(run_context[t]), name)
           rc   == CompleteCall(run_context[t])
       IN  /\ StoreContext(t, rc)
           /\ NotifyEmit(t, f, rc, name, "completed", id, "tc_emit")
    /\ UNCHANGED << chat_histories, active_tasks, task, cancel_req, connected, clears >>

\* the completed emit returned: record it and return to the tool
CompleteEmitResume(t, f) ==
    /\ CanResume(t, f, "tc_emit")
    /\ run_context' = [run_context EXCEPT ![t] =
          MarkSent(@, ToolCallKey(frames[t][f].call_name, frames[t][f].call_id),
                   "completed")]
    /\ frames' = [frames EXCEPT ![t][f] = AdvanceOp(@)]
    /\ running' = << t, f >>
    /\ UNCHANGED << user_contexts, chat_histories, active_tasks, task, wire,
                    cancel_req, connected, faults, clears >>

\* synchronous tool code: it goes through, or raises into the tool's
\* `except Exception` handler
ToolBody(t, f) ==
    /\ AtOp(t, f, "body")
    /\ \E raises \in BOOLEAN :
        frames' = [frames EXCEPT ![t][f] =
            IF raises THEN [@ EXCEPT !.phase = "except", !.ip = 1] ELSE AdvanceOp(@)]
    /\ UNCHANGED << user_contexts, chat_histories, active_tasks, task, run_context,
                    wire, cancel_req, connected, running, faults, clears >>

\* await wrapper.invoke_tool(...)
ToolAwaitExt(t, f) ==
    /\ AtOp(t, f, "ext")
    /\ frames' = [frames EXCEPT ![t][f].pc = "ext_await"]
    /\ running' = Idle
    /\ UNCHANGED << user_contexts, chat_histories, active_tasks, task, run_context,
                    wire, cancel_req, connected, faults, clears >>

ExtResume(t, f) ==
    /\ CanResume(t, f, "ext_await")
    /\ \E raises \in BOOLEAN :
        frames' = [frames EXCEPT ![t][f] =
            IF raises THEN [@ EXCEPT !.pc = "tool_op", !.phase = "except", !.ip = 1]
            ELSE AdvanceOp(@)]
    /\ running' = << t, f >>
    /\ UNCHANGED << user_contexts, chat_histories, active_tasks, task, run_context,
                    wire, cancel_req, connected, faults, clears >>

\* the tool returns its string: a single call returns into the runtime,
\* which goes on to its next model call; a call of a batch is done
ToolReturn(t, f) ==
    /\ running = << t, f >>
    /\ frames[t][f].pc = "tool_op"
    /\ AtEnd(frames[t][f])
    /\ frames' = [frames EXCEPT ![t][f] =
          IF task[t].par THEN [NoFrame EXCEPT !.pc = "ret"] ELSE NoFrame]
    /\ task' = [task EXCEPT ![t].pc = IF task[t].par THEN @ ELSE "rt"]
    /\ running' = Idle
    /\ UNCHANGED << user_contexts, chat_histories, active_tasks, run_context, wire,
                    cancel_req, connected, faults, clears >>

\* ------------------------------------------------- concurrent tool calls
\* the runtime starts a batch of two tool calls, each in a task of its own
RtInvokePair(t, a, b, mc) ==
    /\ running = Idle
    /\ task[t].pc = "rt"
    /\ ~task[t].must_cancel
    /\ task[t].ncalls + 2 <= mc
    /\ task' = [task EXCEPT ![t] =
          [@ EXCEPT !.pc = "tools", !.par = TRUE, !.ncalls = @ + 2]]
    /\ frames' = [frames EXCEPT ![t] =
          [f \in FrameIds |->
              [NoFrame EXCEPT !.pc = "ready", !.tool = IF f = 1 THEN a ELSE b]]]
    /\ UNCHANGED << user_contexts, chat_histories, active_tasks, run_context, wire,
                    cancel_req, connected, running, faults, clears >>

\* first run of a call of the batch
FrameStart(t, f) ==
    /\ CanResume(t, f, "ready")
    /\ frames' = [frames EXCEPT ![t][f] = EnterTool(@.tool)]
    /\ running' = << t, f >>
    /\ UNCHANGED << user_contexts, chat_histories, active_tasks, task, run_context,
                    wire, cancel_req, connected, faults, clears >>

\* both calls of the batch returned: the runtime goes on
GatherDone(t) ==
    /\ running = Idle
    /\ task[t].pc = "tools"
    /\ task[t].par
    /\ ~task[t].must_cancel
    /\ \A f \in FrameIds : frames[t][f].pc = "ret"
    /\ task' = [task EXCEPT ![t] = [@ EXCEPT !.pc = "rt", !.par = FALSE]]
    /\ frames' = [frames EXCEPT ![t] = [f \in FrameIds |-> NoFrame]]
    /\ UNCHANGED << user_contexts, chat_histories, active_tasks, run_context, wire,
                    cancel_req, connected, running, faults, clears >>

\* ------------------------------------------------------ cancellation
\* the await the call is suspended in sits inside a bare `except:`
InBareExcept(fr) == fr.pc = "tc_emit" /\ CurOp(fr).bare

\* the awaits of process_agent_response and of the tool bodies
Suspended ==
    {"start", "gen_emit", "rt", "part_emit", "part_sleep", "content_emit", "err_emit"}
SuspendedInTool == {"ts_emit", "ts_sleep", "tc_emit", "ext_await"}

\* the turn awaits a single call, which is suspended
AwaitsCall(t) ==
    /\ task[t].pc = "tools"
    /\ ~task[t].par
    /\ frames[t][1].pc \in SuspendedInTool

\* CancelledError reaches process_agent_response (`except
\* asyncio.CancelledError: raise`; `except Exception` does not catch it)
Cancelled(t) ==
    /\ running = Idle
    /\ task[t].must_cancel
    /\ \/ task[t].pc \in Suspended
       \/ AwaitsCall(t) /\ ~InBareExcept(frames[t][1])
    /\ task' = [task EXCEPT ![t] = [@ EXCEPT !.pc = "cancelled", !.must_cancel = FALSE]]
    /\ frames' = [frames EXCEPT ![t] = [f \in FrameIds |-> NoFrame]]
    /\ UNCHANGED << user_contexts, chat_histories, active_tasks, run_context, wire,
                    cancel_req, connected, running, faults, clears >>

\* CancelledError raised at an await inside `try: ... except: pass`: the
\* handler drops it and the tool goes on
CancelSwallowed(t) ==
    /\ running = Idle
    /\ task[t].must_cancel
    /\ AwaitsCall(t)
    /\ InBareExcept(frames[t][1])
    /\ task' = [task EXCEPT ![t].must_cancel = FALSE]
    /\ frames' = [frames EXCEPT ![t][1] = AdvanceOp(@)]
    /\ running' = << t, 1 >>
    /\ UNCHANGED << user_contexts, chat_histories, active_tasks, run_context, wire,
                    cancel_req, connected, faults, clears >>

\* ------------------------------------------------ connection handlers
FreshCancel ==
    { k \in 1..MaxCancels :
        cancel_req[k].pc = "unused" /\ \A j \in 1..(k-1) : cancel_req[j].pc # "unused" }

\* cancel_stream up to its await: cancel_active_tasks, then the
\* stream_cancelled emit.  d is data['user_id'], or NoUser when the payload
\* carries none
CancelStream(c, d) ==
    /\ running = Idle
    /\ connected[c]
    /\ \E k \in FreshCancel :
        IF cancel_active_tasks_returns(active_tasks, c)
        THEN \E ok \in EmitOutcomes :
             /\ faults' = IF ok THEN faults ELSE faults - 1
             /\ task' = [t \in TurnIds |->
                   IF t \in CancelTargets(active_tasks, c) THEN TaskCancel(task[t])
                   ELSE task[t]]
             /\ active_tasks' = cancel_active_tasks(active_tasks, c)
             /\ cancel_req' = [cancel_req EXCEPT ![k] =
                   [pc |-> IF ok THEN "ack_emit" ELSE "raised", sid |-> c, data |-> d,
                    cancelled |-> CancelTargets(active_tasks, c)]]
        ELSE /\ cancel_req' = [cancel_req EXCEPT ![k] =
                   [pc |-> "noop", sid |-> c, data |-> d, cancelled |-> {}]]
             /\ UNCHANGED << task, active_tasks, faults >>
    /\ UNCHANGED << user_contexts, chat_histories, run_context, wire, connected,
                    running, clears, frames >>

\* the marker is appended whether or not a task was cancelled
CancelStreamResume_always(k) ==
    /\ running = Idle
    /\ cancel_req[k].pc \in {"ack_emit", "noop"}
    /\ chat_histories' =
          IF cancel_req[k].data # NoUser
          THEN add_message_to_history(chat_histories, cancel_req[k].data, "system",
                                      "cancelled", 0 - k)
          ELSE chat_histories
    /\ cancel_req' = [cancel_req EXCEPT ![k].pc = "done"]
    /\ UNCHANGED << user_contexts, active_tasks, task, run_context, wire, connected,
                    running, faults, clears, frames >>

\* cancel_stream after the emit: the history entry, if the payload names a user
CancelStreamResume(k) ==
    /\ running = Idle
    /\ cancel_req[k].pc = "ack_emit"
    /\ chat_histories' =
          IF cancel_req[k].data # NoUser
          THEN add_message_to_history(chat_histories, cancel_req[k].data, "system",
                                      "cancelled", 0 - k)
          ELSE chat_histories
    /\ cancel_req' = [cancel_req EXCEPT ![k].pc = "done"]
    /\ UNCHANGED << user_contexts, active_tasks, task, run_context, wire, connected,
                    running, faults, clears, frames >>

\* disconnect: state.cancel_active_tasks(sid)
Disconnect(c) ==
    /\ running = Idle
    /\ connected[c]
    /\ connected' = [connected EXCEPT ![c] = FALSE]
    /\ task' = [t \in TurnIds |->
          IF t \in CancelTargets(active_tasks, c) THEN TaskCancel(task[t]) ELSE task[t]]
    /\ active_tasks' = cancel_active_tasks(active_tasks, c)
    /\ UNCHANGED << user_contexts, chat_histories, run_context, wire, cancel_req,
                    running, faults, clears, frames >>

\* clear_chat_history
ClearHistory(c, u) ==
    /\ running = Idle
    /\ connected[c]
    /\ clears < MaxClears
    /\ clears' = clears + 1
    /\ chat_histories' = clear_chat_history(chat_histories, u)
    /\ UNCHANGED << user_contexts, active_tasks, task, run_context, wire, cancel_req,
                    connected, running, faults, frames >>

\* ------------------------------------------------------- HTTP /chat
\* the context http_routes.chat hands to Runner.run: the persistent context
\* itself, without socket and sid
HttpContext(u) ==
    [EmptyRunContext EXCEPT
        !.global_tool_counter = user_contexts[u].global_tool_counter,
        !.tool_call_counters = user_contexts[u].tool_call_counters,
        !.active_tool_calls = user_contexts[u].active_tool_calls,
        !.current_tool_call_uuid = user_contexts[u].current_tool_call_uuid,
        !.sent_tool_notifications =
            IF user_contexts[u].sent_ref = 0 THEN {}
            ELSE run_context[user_contexts[u].sent_ref].sent_tool_notifications,
        !.persistent = TRUE]

\* POST /chat up to `await Runner.run`: session lookup, history append,
\* the input list; no task is registered and no event is emitted
HttpChat(u, mt) ==
    /\ running = Idle
    /\ \E t \in FreshTurn(mt) :
        /\ user_contexts' = [user_contexts EXCEPT ![u].created = TRUE]
        /\ chat_histories' =
              add_message_to_history(
                  [chat_histories EXCEPT ![u] = get_or_create_history(u)],
                  u, "user", "message", t)
        /\ task' = [task EXCEPT ![t] =
              [NoTask EXCEPT !.pc = "rt", !.user = u,
                             !.input = RuntimeInput(chat_histories', u, t)]]
        /\ run_context' = [run_context EXCEPT ![t] = HttpContext(u)]
    /\ UNCHANGED << active_tasks, wire, cancel_req, connected, running, faults,
                    clears, frames >>

\* the runtime returns its final text: record it and answer
HttpReturn(t) ==
    /\ running = Idle
    /\ task[t].pc = "rt"
    /\ task[t].sid \notin Conns
    /\ chat_histories' =
          add_message_to_history(chat_histories, task[t].user, "assistant", "response", t)
    /\ task' = [task EXCEPT ![t].pc = "done"]
    /\ UNCHANGED << user_contexts, active_tasks, run_context, wire, cancel_req,
                    connected, running, faults, clears, frames >>

\* the runtime raises: "Sorry, I encountered an error: ..." is recorded
\* and returned
HttpRaise(t) ==
    /\ running = Idle
    /\ task[t].pc = "rt"
    /\ task[t].sid \notin Conns
    /\ chat_histories' =
          add_message_to_history(chat_histories, task[t].user, "assistant",
                                 "encountered", t)
    /\ task' = [task EXCEPT ![t].pc = "done"]
    /\ UNCHANGED << user_contexts, active_tasks, run_context, wire, cancel_req,
                    connected, running, faults, clears, frames >>

\* ------------------------------------------------------ specification
\* the steps of a turn outside the runtime's tool calls
TurnStep(t, words) ==
    \/ ChatRequestResume(t)
    \/ TaskStart(t)
    \/ RunAgent(t)
    \/ \E w \in words : RtReturn(t, w)
    \/ RtRaise(t)
    \/ PartEmitResume(t)
    \/ PartSleepResume(t)
    \/ ContentEmitResume(t)
    \/ ExcHandler(t)
    \/ ErrEmitResume(t)

\* the steps of a tool call in frame f
ToolStep(t, f) ==
    \/ ToolNotifyStart(t, f)
    \/ StartEmitResume(t, f)
    \/ StartSleepResume(t, f)
    \/ ToolNotifyComplete(t, f)
    \/ CompleteEmitResume(t, f)
    \/ ToolBody(t, f)
    \/ ToolReturn(t, f)

\* the await of search_web on the external search
ExtStep(t, f) ==
    \/ ToolAwaitExt(t, f)
    \/ ExtResume(t, f)

\* the steps of a batch of two concurrent calls
PairStep(t, mc, tools) ==
    \/ \E a \in tools, b \in tools : RtInvokePair(t, a, b, mc)
    \/ \E f \in FrameIds : FrameStart(t, f)
    \/ GatherDone(t)

\* the requests of the clients on connections `conns` for users `users`;
\* a cancel_stream payload names a user of `payloads` or none
Handlers(mt, conns, users, payloads) ==
    \/ \E c \in conns, u \in users : ChatRequest(c, u, mt)
    \/ \E c \in conns, d \in payloads \cup {NoUser} : CancelStream(c, d)
    \/ \E k \in 1..MaxCancels : CancelStreamResume(k)
    \/ \E c \in conns : Disconnect(c)
    \/ \E c \in conns, u \in users : ClearHistory(c, u)

\* Spec: the session store and the task registry under MaxTurns turns of
\* one user on one connection, the runtime answering without tool calls
Next ==
    \/ Handlers(MaxTurns, {"c1"}, {"u1"}, Users)
    \/ \E t \in TurnIds : TurnStep(t, Words)
    \/ \E t \in TurnIds : Cancelled(t)

Spec == Init /\ [][Next]_vars

\* SpecTurn: one turn of one user, the runtime making up to TrackerCalls
\* calls, one after the other, of any tool
NextTurn ==
    \/ Handlers(1, {"c1"}, {"u1"}, {"u1"})
    \/ \E t \in TurnIds : TurnStep(t, Words)
    \/ \E t \in TurnIds, tool \in Tools : RtInvoke(t, tool, TrackerCalls)
    \/ \E t \in TurnIds : ToolStep(t, 1)
    \/ \E t \in TurnIds : ExtStep(t, 1)
    \/ \E t \in TurnIds : Cancelled(t)
    \/ \E t \in TurnIds : CancelSwallowed(t)

SpecTurn == Init /\ [][NextTurn]_vars

\* SpecTwo: MaxTurns turns of one user on one connection with up to
\* MaxCalls tool calls and a one-chunk answer each, the sink never failing
NextTwo ==
    \/ Handlers(MaxTurns, {"c1"}, {"u1"}, {"u1"})
    \/ \E t \in TurnIds : TurnStep(t, {3})
    \/ \E t \in TurnIds : RtInvoke(t, "text_to_python", MaxCalls)
    \/ \E t \in TurnIds : ToolStep(t, 1)
    \/ \E t \in TurnIds : Cancelled(t)
    \/ \E t \in TurnIds : CancelSwallowed(t)

SpecTwo == InitFor(0) /\ [][NextTwo]_vars

\* SpecOverlap: one turn that nobody cancels, the runtime making up to
\* TrackerCalls calls, singly or two at a time
NextOverlap ==
    \/ ChatRequest("c1", "u1", 1)
    \/ \E t \in TurnIds : TurnStep(t, Words)
    \/ \E t \in TurnIds, tool \in Tools : RtInvoke(t, tool, TrackerCalls)
    \/ \E t \in TurnIds : PairStep(t, TrackerCalls, Tools)
    \/ \E t \in TurnIds, f \in FrameIds : ToolStep(t, f)
    \/ \E t \in TurnIds, f \in FrameIds : ExtStep(t, f)

SpecOverlap == Init /\ [][NextOverlap]_vars

\* SpecStream: one undisturbed turn without tool calls, the runtime
\* returning a text of any length up to MaxWords, the sink never failing
NextStream ==
    \/ ChatRequest("c1", "u1", 1)
    \/ \E t \in TurnIds : TurnStep(t, 0..MaxWords)

SpecStream == InitFor(0) /\ [][NextStream]_vars

\* SpecResolve: notify_complete applied to a tracker state drawn from a
\* bounded set: up to TrackerCalls calls issued for text_to_sql and
\* searching, any of them still active, current_tool_call_uuid unset or
\* naming any of them, and text_to_sql about to notify its completion
ResolveTools == {"text_to_sql", "searching"}
ResolveCalls ==
    { [uuid |-> << 1, i >>, tool |-> n, call_id |-> i] :
        i \in 1..TrackerCalls, n \in ResolveTools }

\* the call_ids of calls to tool n, in the order of issue
IdsOf(calls, n) ==
    LET RECURSIVE Upto(_)
        Upto(i) == IF i = 0 THEN << >>
                   ELSE IF \E a \in calls : a.call_id = i /\ a.tool = n
                        THEN Append(Upto(i - 1), i)
                        ELSE Upto(i - 1)
    IN  Upto(TrackerCalls)

\* the tracker states after the calls `issued` were started, `active` of
\* them not yet completed
ResolveContexts ==
    UNION { { [EmptyRunContext EXCEPT
                  !.global_tool_counter = IF issued = {} THEN -1 ELSE TrackerCalls,
                  !.tool_call_counters =
                      [n \in ToolNames |->
                          IF n \in ResolveTools THEN IdsOf(issued, n) ELSE << >>],
                  !.active_tool_calls = active,
                  !.current_tool_call_uuid = cur,
                  !.socket = TRUE] :
                active \in SUBSET issued,
                cur \in {NoUuid} \cup { << 1, i >> : i \in 1..TrackerCalls } } :
            issued \in { c \in SUBSET ResolveCalls :
                           \A a \in c, b \in c : a.call_id = b.call_id => a = b } }

InitResolve ==
    /\ user_contexts = [u \in Users |-> NoContext]
    /\ chat_histories = [u \in Users |-> << >>]
    /\ active_tasks = [c \in Conns |-> IF c = "c1" THEN << 1 >> ELSE << >>]
    /\ task = [t \in TurnIds |->
          IF t = 1 THEN [NoTask EXCEPT !.pc = "tools", !.sid = "c1", !.user = "u1",
                                       !.ncalls = 1, !.uuids = TrackerCalls]
          ELSE NoTask]
    /\ run_context \in
          { [t \in TurnIds |-> IF t = 1 THEN rc ELSE EmptyRunContext] :
              rc \in ResolveContexts }
    /\ wire = [t \in TurnIds |-> << >>]
    /\ cancel_req = [k \in 1..MaxCancels |-> NoCancel]
    /\ connected = [c \in Conns |-> TRUE]
    /\ running = << 1, 1 >>
    /\ faults = 0
    /\ clears = 0
    /\ frames = [t \in TurnIds |-> [f \in FrameIds |->
          IF t = 1 /\ f = 1 THEN [EnterTool("text_to_sql") EXCEPT !.ip = 3]
          ELSE NoFrame]]

NextResolve ==
    \/ ToolNotifyComplete(1, 1)
    \/ CompleteEmitResume(1, 1)
    \/ ToolReturn(1, 1)

SpecResolve == InitResolve /\ [][NextResolve]_vars

\* SpecRegistry: one turn that nobody cancels, the runtime making up to
\* MaxCalls calls of any tool of the registry, the sink never failing
NextRegistry ==
    \/ ChatRequest("c1", "u1", 1)
    \/ \E t \in TurnIds : TurnStep(t, {3})
    \/ \E t \in TurnIds, tool \in Registry : RtInvoke(t, tool, MaxCalls)
    \/ \E t \in TurnIds : ToolStep(t, 1)
    \/ \E t \in TurnIds : ExtStep(t, 1)

SpecRegistry == InitFor(0) /\ [][NextRegistry]_vars

\* SpecConns: MaxTurns turns of one user on either of two connections,
\* the runtime answering without tool calls, the sink never failing
NextConns ==
    \/ Handlers(MaxTurns, Conns, {"u1"}, {"u1"})
    \/ \E t \in TurnIds : TurnStep(t, {3})
    \/ \E t \in TurnIds : Cancelled(t)

SpecConns == InitFor(0) /\ [][NextConns]_vars

\* SpecHttp: MaxTurns turns of one user, each a socket chat_request or a
\* POST /chat, with up to MaxCalls tool calls each, nobody cancelling, the
\* sink never failing
HttpTools == {"searching", "text_to_sql"}

NextHttp ==
    \/ HttpChat("u1", MaxTurns)
    \/ ChatRequest("c1", "u1", MaxTurns)
    \/ \E t \in TurnIds : TurnStep(t, {3})
    \/ \E t \in TurnIds : HttpReturn(t)
    \/ \E t \in TurnIds : HttpRaise(t)
    \/ \E t \in TurnIds, tool \in HttpTools : RtInvoke(t, tool, MaxCalls)
    \/ \E t \in TurnIds : ToolStep(t, 1)

SpecHttp == InitFor(0) /\ [][NextHttp]_vars

\* ------------------------------------------------------------ properties
\* the tool events of turn t with the given status, in emission order
ToolEvents(t, status) ==
    SelectSeq(wire[t], LAMBDA e : e.type = "tool" /\ e.status = status)

\* the call_ids of the `starting` events of turn t for tool `name`, in order
StartIds(t, name) ==
    LET s == SelectSeq(ToolEvents(t, "starting"), LAMBDA e : e.tool = name)
    IN  [i \in 1..Len(s) |-> s[i].n]

\* the events appended to the wire of turn t by the current step
NewEvents(t) == { wire'[t][i] : i \in (Len(wire[t]) + 1)..Len(wire'[t]) }

\* a cancel_stream has cancelled turn t
CancelStreamHit(t) == \E k \in 1..MaxCancels : t \in cancel_req[k].cancelled

\* the call_ids notify_start has issued in turn t
IssuedIds(t) ==
    UNION { { run_context[t].tool_call_counters[n][i] :
                i \in 1..Len(run_context[t].tool_call_counters[n]) } : n \in ToolNames }

\* C1: once cancel_stream has cancelled a turn, that turn emits no partial
\* and no content event any more.
C1_NoStreamAfterCancel ==
    [][\A t \in TurnIds :
          CancelStreamHit(t) =>
              \A e \in NewEvents(t) : e.type \notin {"partial", "content"}]_vars

\* C2: in every turn, for every tool, the starting events emitted are
\* exactly the call_ids notify_start issued for it, each once and in the
\* order of issue: no start is suppressed and none is emitted twice.
C2_ExactlyOneStarting ==
    \A t \in TurnIds, name \in ToolNames :
        StartIds(t, name) = run_context[t].tool_call_counters[name]

\* C2 witness: a turn in which three pairs were issued and announced, two of
\* them by the nested starts of search_web
C2_ThreeStarts ==
    \E t \in TurnIds :
        /\ Len(ToolEvents(t, "starting")) = 3
        /\ Len(StartIds(t, "web_search")) = 1

\* C3: every completed event is preceded, in its turn, by a starting event
\* with the same tool name and call_id.
C3_CompletedAfterStarting ==
    \A t \in TurnIds : \A i \in DOMAIN wire[t] :
        (wire[t][i].type = "tool" /\ wire[t][i].status = "completed") =>
            \E j \in 1..(i - 1) :
                /\ wire[t][j].type = "tool"
                /\ wire[t][j].status = "starting"
                /\ wire[t][j].tool = wire[t][i].tool
                /\ wire[t][j].n = wire[t][i].n

\* C4: no turn emits two completed events with the same tool name and
\* call_id.
C4_AtMostOneCompleted ==
    \A t \in TurnIds :
        \A i \in DOMAIN ToolEvents(t, "completed"), j \in DOMAIN ToolEvents(t, "completed") :
            (/\ ToolEvents(t, "completed")[i].tool = ToolEvents(t, "completed")[j].tool
             /\ ToolEvents(t, "completed")[i].n = ToolEvents(t, "completed")[j].n) => i = j

\* turn t1 of user u had recorded its response when turn t2 was requested
Successive(u, t1, t2) ==
    \E i \in DOMAIN chat_histories[u], j \in DOMAIN chat_histories[u] :
        /\ i < j
        /\ chat_histories[u][i] = Msg("assistant", "response", t1)
        /\ chat_histories[u][j] = Msg("user", "message", t2)

\* the turn task exists and has not resolved
InFlight(t) ==
    task[t].pc \notin {"unused", "aborted", "req_emit", "rejected"} \cup Finished

\* C5: every call_id issued in a turn is greater than every call_id issued
\* in an earlier, finished turn of the same user.
C5_CallIdsIncrease ==
    \A u \in Users, t1 \in TurnIds, t2 \in TurnIds :
        Successive(u, t1, t2) =>
            \A a \in IssuedIds(t1), b \in IssuedIds(t2) : b > a

\* C6: two turns of one user that are in flight together never hold the
\* same call_id.
C6_NoDuplicateCallId ==
    \A t1 \in TurnIds, t2 \in TurnIds :
        (/\ t1 # t2
         /\ task[t1].user = task[t2].user
         /\ InFlight(t1)
         /\ InFlight(t2)) => IssuedIds(t1) \cap IssuedIds(t2) = {}

\* C7: a cancel_stream that cancelled turn tasks and sent its
\* acknowledgement appends one "[Response generation was cancelled]" entry
\* to the history of the user of each turn it cancelled, whatever its payload.
C7_OneCancelEntry ==
    [][\A k \in 1..MaxCancels :
          (cancel_req[k].pc = "ack_emit" /\ cancel_req'[k].pc = "done") =>
              \A t \in cancel_req[k].cancelled :
                  chat_histories'[task[t].user] =
                      Append(chat_histories[task[t].user],
                             Msg("system", "cancelled", 0 - k))]_vars

\* C8: a turn whose cancellation has been requested appends no entry to
\* any history.
C8_NoStoreWriteAfterCancel ==
    [][\A t \in TurnIds : task[t].cancelling =>
          \A u \in Users :
              Len(chat_histories'[u]) > Len(chat_histories[u]) =>
                  chat_histories'[u][Len(chat_histories'[u])].by # t]_vars

\* C9: a turn task that has resolved is listed under no connection.
C9_ResolvedNotListed ==
    \A t \in TurnIds : task[t].pc \in Finished =>
        \A c \in Conns : t \notin Listed(active_tasks, c)

Unfinished == { t \in TurnIds : InFlight(t) }

\* C11 (as claimed): never two unfinished turn tasks of one user, nor two
\* tasks registered under one connection.
C11_AtMostOneActive ==
    /\ \A t1 \in Unfinished, t2 \in Unfinished :
          task[t1].user = task[t2].user => t1 = t2
    /\ \A c \in Conns : Len(active_tasks[c]) <= 1

\* C11 (amended): the registry sets no limit on the turns of a user or of a
\* connection; what it keeps is that a task is listed at most once, and
\* only under the connection that started it.
C11_ListedOnceUnderOwnSid ==
    \A c \in Conns :
        \A i \in DOMAIN active_tasks[c] :
            /\ task[active_tasks[c][i]].sid = c
            /\ \A j \in DOMAIN active_tasks[c] :
                  active_tasks[c][i] = active_tasks[c][j] => i = j

\* C11 witness: two unfinished turns of one user, both listed under c1
C11_TwoActive ==
    /\ Len(active_tasks["c1"]) = 2
    /\ \A t \in TurnIds : InFlight(t) /\ task[t].user = "u1"

\* the number of events of turn t of the given type
CountType(t, type) == Len(SelectSeq(wire[t], LAMBDA e : e.type = type))

\* the entries turn t itself appended to the history of its user
OwnEntries(t) ==
    SelectSeq(chat_histories[task[t].user], LAMBDA m : m.by = t /\ m.role # "user")

\* C12: a turn that went into its exception handler and resolved without
\* being cancelled has emitted exactly one error event and no content
\* event, has appended exactly one entry, is no longer listed, and the
\* exception has not left the task.
C12_ErrorHandled ==
    \A t \in TurnIds :
        (CountType(t, "error") > 0 /\ task[t].pc \in {"done", "failed"}) =>
            /\ task[t].pc = "done"
            /\ CountType(t, "error") = 1
            /\ \A i \in DOMAIN Delivered(t) : Delivered(t)[i].type # "content"
            /\ clears = 0 => Len(OwnEntries(t)) = 1
            /\ \A c \in Conns : t \notin Listed(active_tasks, c)

\* C13: the entry of a failed turn has role assistant; role system is used
\* only for the cancellation marker.
C13_SystemOnlyForCancel ==
    \A u \in Users : \A i \in DOMAIN chat_histories[u] :
        chat_histories[u][i].role = "system" => chat_histories[u][i].content = "cancelled"

\* C14: a progress emit that fails does not abort the turn: no step that
\* emits an event takes the turn into its exception handler or ends the
\* request.
C14_EmitFailureSwallowed ==
    [][\A t \in TurnIds :
          (task'[t].pc \in {"exc", "aborted"} /\ task[t].pc \notin {"exc", "aborted"}) =>
              wire'[t] = wire[t]]_vars

\* C15: in every turn the first event is a loading event, no tool or
\* loading event follows a partial, nothing but an error event follows the
\* content event, and there is at most one content event.
C15_EventOrder ==
    \A t \in TurnIds :
        /\ wire[t] # << >> => wire[t][1].type = "loading"
        /\ \A i \in DOMAIN wire[t], j \in DOMAIN wire[t] :
              i < j =>
                  /\ wire[t][i].type = "partial" =>
                        wire[t][j].type \notin {"tool", "loading"}
                  /\ wire[t][i].type = "content" => wire[t][j].type = "error"
        /\ CountType(t, "content") <= 1

\* C15 witness: a turn that emitted loading, tool, partial and content events
C15_FullSequence ==
    \E t \in TurnIds :
        /\ CountType(t, "loading") = 2
        /\ CountType(t, "tool") >= 2
        /\ CountType(t, "partial") = 2
        /\ CountType(t, "content") = 1

\* turn t ran undisturbed on a fresh session and its runtime called
\* text_to_sql exactly once and returned a text: nothing failed, nobody
\* cancelled or cleared, every event reached the client
OneSqlCallTurn(t) ==
    /\ task[t].pc = "done"
    /\ task[t].ncalls = 1
    /\ run_context[t].tool_call_counters =
          [n \in ToolNames |-> IF n = "text_to_sql" THEN << 1 >> ELSE << >>]
    /\ CountType(t, "error") = 0
    /\ \A i \in DOMAIN wire[t] : wire[t][i].sent
    /\ faults = MaxFails
    /\ clears = 0
    /\ \A k \in 1..MaxCancels : cancel_req[k].pc \in {"unused", "noop"}
    /\ \A s \in TurnIds : s # t => task[s].pc = "unused"

\* the events from the fifth on are partials followed by one content event
StreamTail(t) ==
    /\ Len(wire[t]) >= 5
    /\ wire[t][Len(wire[t])].type = "content"
    /\ \A i \in 5..(Len(wire[t]) - 1) : wire[t][i].type = "partial"

TwoEntryHistory(t) ==
    chat_histories[task[t].user] =
        << Msg("user", "message", t), Msg("assistant", "response", t) >>

Streamed(t) == CountType(t, "content") = 1

Clamp(x, lo, hi) == IF x < lo THEN lo ELSE IF x > hi THEN hi ELSE x
CeilDiv(a, b) == (a + b - 1) \div b

\* C17 (as claimed): the number of partial events is ceil(W / chunk_size)
\* with chunk_size = clamp(W // 10, 5, 10), or 1 if W < 5.
C17_PartialCountAsClaimed ==
    \A t \in TurnIds : Streamed(t) =>
        CountType(t, "partial") =
            CeilDiv(task[t].words,
                    IF task[t].words < 5 THEN 1 ELSE Clamp(task[t].words \div 10, 5, 10))

\* C17 (amended): the number of partial events is ceil(W / chunk_size) with
\* chunk_size = clamp(W // 10, 5, 10) for every W.
C17_PartialCount ==
    \A t \in TurnIds : Streamed(t) =>
        CountType(t, "partial") =
            CeilDiv(task[t].words, Clamp(task[t].words \div 10, 5, 10))

\* C17 witness: a text long enough for the upper clamp has been streamed
C17_LongText == \E t \in TurnIds : Streamed(t) /\ task[t].words = MaxWords

\* the word counts of the partial events of turn t, in order
PartialWords(t) ==
    LET s == SelectSeq(wire[t], LAMBDA e : e.type = "partial")
    IN  [i \in 1..Len(s) |-> s[i].n]

\* C18: the partials of a turn are strictly growing prefixes, each at most
\* chunk_size words longer than the one before, the last holds all W words,
\* and one content event with the whole text follows the last partial
\* (for W = 0: no partial, one content).
C18_PrefixGrowth ==
    \A t \in TurnIds : Streamed(t) =>
        LET p  == PartialWords(t)
            w  == task[t].words
            cs == Clamp(w \div 10, 5, 10)
        IN  /\ \A i \in DOMAIN p :
                  LET prev == IF i = 1 THEN 0 ELSE p[i - 1]
                  IN  p[i] - prev >= 1 /\ p[i] - prev <= cs
            /\ (w = 0) = (p = << >>)
            /\ p # << >> => p[Len(p)] = w
            /\ wire[t][Len(wire[t])].type = "content"
            /\ wire[t][Len(wire[t])].n = w

\* C18 witness: a streamed text whose last chunk is shorter than the others
C18_ShortLastChunk ==
    \E t \in TurnIds :
        /\ Streamed(t)
        /\ Len(PartialWords(t)) = 3
        /\ PartialWords(t)[3] - PartialWords(t)[2] < PartialWords(t)[2] - PartialWords(t)[1]

\* C19: a clear_chat_history request for u leaves get_chat_history(u)
\* empty and changes nothing else: not the contexts (global_tool_counter
\* included), not another user's history, not the registry, not the turns.
C19_ClearFrame ==
    [][clears' # clears =>
          /\ \E u \in Users :
                /\ get_chat_history(chat_histories', u) = << >>
                /\ \A v \in Users \ {u} : chat_histories'[v] = chat_histories[v]
          /\ UNCHANGED << user_contexts, active_tasks, task, run_context, wire >>]_vars

\* C19 witness: u1's history was cleared while a turn of u1 is in flight
\* and u2's history holds an entry
C19_ClearedInFlight ==
    /\ clears = 1
    /\ chat_histories["u1"] = << >>
    /\ chat_histories["u2"] # << >>
    /\ \E t \in TurnIds : InFlight(t) /\ task[t].user = "u1"

\* C20: with two turns of one user on one connection, every turn that
\* nobody cancelled is listed while it runs, and every turn that ran to its
\* end without an error has sent growing partials followed by exactly one
\* content event of its own and has appended its own assistant entry.
C20_TwoTurnsConsistent ==
    \A t \in TurnIds :
        /\ (InFlight(t) /\ ~task[t].cancelling) =>
              t \in Listed(active_tasks, task[t].sid)
        /\ (task[t].pc = "done" /\ CountType(t, "error") = 0) =>
              /\ \A i \in DOMAIN PartialWords(t) :
                    i > 1 => PartialWords(t)[i] > PartialWords(t)[i - 1]
              /\ CountType(t, "content") = 1
              /\ wire[t][Len(wire[t])] =
                    [Ev("content", "", "", task[t].words) EXCEPT
                        !.sent = wire[t][Len(wire[t])].sent]
              /\ clears = 0 =>
                    OwnEntries(t) = << Msg("assistant", "response", t) >>

\* C20 witness: two turns of u1 on c1 ran together, nobody cancelled, and
\* the second finished before the first
C20_BothDone ==
    /\ \A t \in TurnIds :
          task[t].pc = "done" /\ ~task[t].cancelling /\ CountType(t, "partial") = 2
    /\ chat_histories["u1"] =
          << Msg("user", "message", 1), Msg("user", "message", 2),
             Msg("assistant", "response", 2), Msg("assistant", "response", 1) >>

\* turn t is at a notification of its tool call, no socket in its context
NotifyingWithoutSocket(t) ==
    /\ ~run_context[t].socket
    /\ running = << t, 1 >>
    /\ frames[t][1].pc = "tool_op"
    /\ ~AtEnd(frames[t][1])
    /\ CurOp(frames[t][1]).kind \in {"start", "complete"}

\* C21: a notify_start or notify_complete made without a socket in the
\* context emits nothing, writes no entry to sent_tool_notifications,
\* returns without suspending in an emit (the False return), and the tool
\* goes on at its next step: nothing is raised into it and the turn stays
\* in its runtime.
C21_SilentWithoutSocket ==
    [][\A t \in TurnIds :
          NotifyingWithoutSocket(t) =>
              /\ wire' = wire
              /\ run_context'[t].sent_tool_notifications =
                    run_context[t].sent_tool_notifications
              /\ frames'[t][1] = AdvanceOp(frames[t][1])
              /\ running' = running
              /\ task'[t].pc = task[t].pc]_vars

\* C21 witness: a POST /chat turn whose runtime called text_to_sql, which
\* notified its start and its completion, has answered; no event was emitted
C21_HttpToolTurnDone ==
    \E t \in TurnIds :
        /\ task[t].sid \notin Conns
        /\ task[t].pc = "done"
        /\ run_context[t].tool_call_counters["text_to_sql"] # << >>
        /\ run_context[t].active_tool_calls = {}
        /\ wire[t] = << >>
        /\ chat_histories[task[t].user][Len(chat_histories[task[t].user])] =
              Msg("assistant", "response", t)

\* the effect of state.cancel_active_tasks(c) on the registry and the tasks
CancelAllEffect(c) ==
    /\ \A t \in Listed(active_tasks, c) :
          task[t].pc \notin Finished => task'[t].must_cancel /\ task'[t].cancelling
    /\ \A t \in TurnIds \ Listed(active_tasks, c) : task'[t] = task[t]
    /\ active_tasks'[c] = << >>
    /\ \A d \in Conns \ {c} : active_tasks'[d] = active_tasks[d]

\* C22: cancel_all(c), called by cancel_stream or by disconnect, requests
\* the cancellation of every unfinished task listed under c and of no
\* other, leaves c's list empty and every other list as it was, and returns
\* true (cancel_stream goes on to its acknowledgement) exactly when c's
\* list was not empty.
C22_CancelAll ==
    [][/\ \A k \in 1..MaxCancels :
             (cancel_req[k].pc = "unused" /\ cancel_req'[k].pc # "unused") =>
                 /\ CancelAllEffect(cancel_req'[k].sid)
                 /\ (cancel_req'[k].pc # "noop") =
                       (active_tasks[cancel_req'[k].sid] # << >>)
       /\ \A c \in Conns :
             (connected[c] /\ ~connected'[c]) => CancelAllEffect(c)]_vars

\* C22 witness: a cancel_stream on c1 has cancelled the turn listed there
\* while the turn listed under c2 stays listed and uncancelled
C22_OtherConnectionKept ==
    \E k \in 1..MaxCancels, t \in TurnIds, s \in TurnIds :
        /\ cancel_req[k].sid = "c1"
        /\ cancel_req[k].cancelled = {t}
        /\ task[s].sid = "c2"
        /\ InFlight(s)
        /\ ~task[s].cancelling
        /\ active_tasks = [c \in Conns |-> IF c = "c2" THEN << s >> ELSE << >>]

\* C23: a turn that completes, normally or through its exception handler,
\* deregisters itself: its task and only its task leaves the list of its
\* connection, every other list is unchanged; a turn that ends cancelled
\* leaves the registry as it was.
C23_Deregister ==
    [][\A t \in TurnIds :
          /\ (task'[t].pc \in {"done", "failed"} /\ task[t].pc \notin Finished) =>
                /\ active_tasks'[task[t].sid] =
                      SelectSeq(active_tasks[task[t].sid], LAMBDA x : x # t)
                /\ t \notin Listed(active_tasks', task[t].sid)
                /\ \A d \in Conns \ {task[t].sid} : active_tasks'[d] = active_tasks[d]
          /\ (task'[t].pc = "cancelled" /\ task[t].pc # "cancelled") =>
                active_tasks' = active_tasks]_vars

\* what an entry written by a turn records: the request, the final text of
\* the runtime, or its failure
EntryKind(m) ==
    IF m.role = "user" THEN "request"
    ELSE IF m.content = "response" THEN "text" ELSE "failure"

\* C24: a socket turn and a POST /chat turn record the same thing in the
\* same way: the request, the final text and the failure of the runtime
\* each have one role and one content, whichever transport wrote the entry.
C24_SameEntries ==
    \A u \in Users : \A i \in DOMAIN chat_histories[u], j \in DOMAIN chat_histories[u] :
        LET a == chat_histories[u][i]
            b == chat_histories[u][j]
        IN  (/\ a.by \in TurnIds
             /\ b.by \in TurnIds
             /\ task[a.by].sid \in Conns
             /\ task[b.by].sid \notin Conns
             /\ EntryKind(a) = EntryKind(b)) =>
                a.role = b.role /\ a.content = b.content

\* the positions of the user and assistant entries of history h
Spoken(h) == { i \in DOMAIN h : h[i].role \in {"user", "assistant"} }

\* C25: the input a chat_request prepares for the runtime holds one element
\* for every user or assistant entry of the user's history, in history
\* order, none for a system entry, and ends with the message just received;
\* on a brand-new session it is that message alone; it is not changed
\* before the runtime gets it.
C25_RuntimeInput ==
    [][\A t \in TurnIds :
          /\ (task[t].pc = "unused" /\ task'[t].pc # "unused") =>
                LET u   == task'[t].user
                    h   == chat_histories'[u]
                    inp == task'[t].input
                IN  /\ Len(inp) = Cardinality(Spoken(h))
                    /\ \A i \in Spoken(h) :
                          inp[Cardinality({j \in Spoken(h) : j <= i})] =
                              [role |-> h[i].role, content |-> << h[i].content, h[i].by >>]
                    /\ inp[Len(inp)] = [role |-> "user", content |-> << "message", t >>]
                    /\ ~user_contexts[u].created =>
                          inp = << [role |-> "user", content |-> << "message", t >>] >>
          /\ task[t].pc # "unused" => task'[t].input = task[t].input]_vars

\* C25 witness: the second turn was requested after the first had failed:
\* the history holds the system entry of the failure, the input does not
C25_SystemEntrySkipped ==
    /\ Len(chat_histories["u1"]) >= 3
    /\ chat_histories["u1"][1] = Msg("user", "message", 1)
    /\ chat_histories["u1"][2] = Msg("system", "error", 1)
    /\ chat_histories["u1"][3] = Msg("user", "message", 2)
    /\ task[2].input = << [role |-> "user", content |-> << "message", 1 >>],
                          [role |-> "user", content |-> << "message", 2 >>] >>

\* C26: a cancel_stream on a connection with no registered task changes
\* nothing: it returns false without the stream_cancelled emit, and the
\* histories, the registry and the turns are as they were, also later.
C26_CancelNoop ==
    [][\A k \in 1..MaxCancels :
          /\ (/\ cancel_req[k].pc = "unused"
              /\ cancel_req'[k].pc # "unused"
              /\ active_tasks[cancel_req'[k].sid] = << >>) =>
                /\ cancel_req'[k].pc = "noop"
                /\ cancel_req'[k].cancelled = {}
                /\ UNCHANGED << chat_histories, active_tasks, task, wire, faults >>
          /\ cancel_req[k].pc = "noop" => cancel_req'[k] = cancel_req[k]]_vars

\* C26 witness: a cancel_stream came after the only turn had finished and
\* deregistered; the history holds the turn's two entries and no marker
C26_CancelAfterDone ==
    \E k \in 1..MaxCancels :
        /\ cancel_req[k].pc = "noop"
        /\ cancel_req[k].data = "u1"
        /\ task[1].pc = "done"
        /\ chat_histories["u1"] =
              << Msg("user", "message", 1), Msg("assistant", "response", 1) >>

\* C27: once a connection has disconnected, no turn task of it is listed
\* and every turn task of it that has not finished has its cancellation
\* pending.
C27_NothingRunsAfterDisconnect ==
    \A c \in Conns : ~connected[c] =>
        \A t \in TurnIds : task[t].sid = c =>
            /\ t \notin Listed(active_tasks, c)
            /\ InFlight(t) => task[t].must_cancel

\* the position of the first partial event of turn t, past the end for none
FirstPartial(t) ==
    IF \E i \in DOMAIN wire[t] : wire[t][i].type = "partial"
    THEN CHOOSE i \in DOMAIN wire[t] :
             /\ wire[t][i].type = "partial"
             /\ \A j \in 1..(i - 1) : wire[t][j].type # "partial"
    ELSE Len(wire[t]) + 1

\* C28: in a turn that nobody cancelled and that has begun to stream,
\* every starting event is followed, before the first partial, by a
\* completed event with the same tool name and call_id.
C28_StartingThenCompleted ==
    \A t \in TurnIds :
        (~task[t].cancelling /\ CountType(t, "partial") > 0) =>
            \A i \in DOMAIN wire[t] :
                (wire[t][i].type = "tool" /\ wire[t][i].status = "starting") =>
                    \E j \in (i + 1)..(FirstPartial(t) - 1) :
                        /\ wire[t][j].type = "tool"
                        /\ wire[t][j].status = "completed"
                        /\ wire[t][j].tool = wire[t][i].tool
                        /\ wire[t][j].n = wire[t][i].n

\* turn t enters the runtime in this step
EntersRuntime(t) == task[t].pc \in {"unused", "gen_emit"} /\ task'[t].pc = "rt"

\* C29: when a turn enters the runtime and every other turn of the user has
\* finished, the tracker state its tools will see is fresh:
\* sent_tool_notifications, tool_call_counters and active_tool_calls are
\* empty and current_tool_call_uuid is unset.
C29_FreshTrackerState ==
    [][\A t \in TurnIds :
          (/\ EntersRuntime(t)
           /\ \A s \in TurnIds \ {t} : task[s].pc \in {"unused"} \cup Finished) =>
              /\ run_context'[t].sent_tool_notifications = {}
              /\ run_context'[t].tool_call_counters = [n \in ToolNames |-> << >>]
              /\ run_context'[t].active_tool_calls = {}
              /\ run_context'[t].current_tool_call_uuid = NoUuid]_vars

\* the call_id notify_complete(name) is to resolve in tracker state rc
ExpectedCallId(rc, name) ==
    LET hit == { a \in rc.active_tool_calls : a.uuid = rc.current_tool_call_uuid }
    IN  IF hit # {} THEN (CHOOSE a \in hit : TRUE).call_id
        ELSE IF Len(rc.tool_call_counters[name]) > 0
             THEN rc.tool_call_counters[name][Len(rc.tool_call_counters[name])]
             ELSE 1

\* C30: a notify_complete(name) carries the call_id of the active call
\* that current_tool_call_uuid names and removes that call from
\* active_tool_calls; with no such call it carries the last call_id of
\* tool_call_counters[name], or 1 when there is none, and leaves
\* active_tool_calls as it was.
C30_ResolvePrecedence ==
    [][\A t \in TurnIds :
          AtOp(t, 1, "complete") =>
              LET rc   == run_context[t]
                  name == CurOp(frames[t][1]).name
                  hit  == { a \in rc.active_tool_calls :
                              a.uuid = rc.current_tool_call_uuid }
              IN  /\ \A e \in NewEvents(t) :
                        /\ e.status = "completed"
                        /\ e.tool = name
                        /\ e.n = ExpectedCallId(rc, name)
                  /\ NewEvents(t) # {}
                  /\ run_context'[t].active_tool_calls = rc.active_tool_calls \ hit
                  /\ run_context'[t].tool_call_counters = rc.tool_call_counters]_vars

\* C30 witness: a completion was resolved to 1 by default: nothing was
\* issued for text_to_sql, the uuid names no active call, and a call of
\* searching stays active
C30_DefaultTaken ==
    /\ wire[1] = << Ev("tool", "text_to_sql", "completed", 1) >>
    /\ run_context[1].tool_call_counters["text_to_sql"] = << >>
    /\ run_context[1].active_tool_calls # {}

\* SpecLive: MaxTurns turns of one user on one connection under asyncio's
\* scheduling: a coroutine that can run is run, the runtime call returns or
\* raises, and an emit or sleep a turn is suspended in returns or raises
NextLive ==
    \/ Handlers(MaxTurns, {"c1"}, {"u1"}, {"u1"})
    \/ \E t \in TurnIds : TurnStep(t, {3})
    \/ \E t \in TurnIds : Cancelled(t)

SpecLive ==
    /\ Init
    /\ [][NextLive]_vars
    /\ \A t \in TurnIds : WF_vars(TurnStep(t, {3}) \/ Cancelled(t))

\* C31: every turn task that has been started eventually resolves: it
\* completes, fails or ends cancelled.
C31_TurnResolves ==
    \A t \in TurnIds : InFlight(t) ~> (task[t].pc \in Finished)

\* C31 witness: both turns have resolved, one cancelled by a cancel_stream
\* and one completed, with a clear_chat_history in between
C31_AllResolved ==
    /\ \E t \in TurnIds : task[t].pc = "cancelled" /\ CancelStreamHit(t)
    /\ \E t \in TurnIds : task[t].pc = "done"
    /\ clears = 1

\* -------------------------------------------------- response formatting
\* the values format_agent_response can be handed
Outputs ==
    { [NoOutput EXCEPT !.kind = k] : k \in {"absent", "none", "str", "object"} }
    \cup
    { [ kind |-> k, message |-> m, response |-> r, content |-> c,
        serializable |-> s ] :
        k \in {"dict", "model"}, m \in FieldValues, r \in FieldValues,
        c \in FieldValues, s \in BOOLEAN }

Raised == "raised"
NonText == "nontext"
NoSpecificResponse == "I don't have a specific response for that query."
NoProperResponse == "I'm sorry, I wasn't able to generate a proper response."

\* the value stored under a key of the mapping: a text, named after its
\* key, or a value that is not a string
FieldText(name, v) == IF v = "text" THEN name ELSE NonText

\* utils.format_agent_response; model_dump()/dict() turn a model into the
\* mapping of its fields
format_agent_response(output) ==
    IF output.kind = "none" THEN NoSpecificResponse
    ELSE IF output.kind \in {"dict", "model"}
    THEN IF output.message # "missing" THEN FieldText("message", output.message)
         ELSE IF output.response # "missing" THEN FieldText("response", output.response)
         ELSE IF output.content # "missing" THEN FieldText("content", output.content)
         ELSE IF output.serializable THEN "json" ELSE Raised
    ELSE "str"

\* process_agent_response, `try: response_content = format_agent_response(
\* result.final_output) except Exception: ...`: reading a final_output the
\* result does not have raises inside the try as well
response_content(output) ==
    LET r == IF output.kind = "absent" THEN Raised
             ELSE format_agent_response(output)
    IN  IF r # Raised THEN r
        ELSE IF output.kind \notin {"absent", "none"} THEN "str"
        ELSE NoProperResponse

\* len(response_content.split())
WordsOf(text) ==
    IF text = NoProperResponse THEN 10
    ELSE IF text = NoSpecificResponse THEN 9
    ELSE 3

\* the runtime returns a result whose final_output is o: format it, then
\* split it into words, which a value that is not a string does not
\* support (AttributeError, caught by `except Exception`), and start
\* streaming
RtReturnOutput(t, o) ==
    /\ running = Idle
    /\ task[t].pc = "rt"
    /\ task[t].sid \in Conns
    /\ ~task[t].must_cancel
    /\ LET text == response_content(o)
           tk == [task[t] EXCEPT !.final_output = o, !.text = text]
       IN  IF text # NonText
           THEN StreamNext(t, [tk EXCEPT !.words = WordsOf(text), !.sent_chunks = 0])
           ELSE /\ task' = [task EXCEPT ![t] = [tk EXCEPT !.pc = "exc"]]
                /\ running' = << t, 0 >>
                /\ UNCHANGED << wire, faults >>
    /\ UNCHANGED << user_contexts, chat_histories, active_tasks, run_context,
                    cancel_req, connected, clears, frames >>

\* SpecFormat: one undisturbed turn, the runtime returning a result of any
\* shape in Outputs without raising, the sink never failing
NextFormat ==
    \/ ChatRequest("c1", "u1", 1)
    \/ \E t \in TurnIds :
        \/ ChatRequestResume(t)
        \/ TaskStart(t)
        \/ RunAgent(t)
        \/ \E o \in Outputs : RtReturnOutput(t, o)
        \/ PartEmitResume(t)
        \/ PartSleepResume(t)
        \/ ContentEmitResume(t)
        \/ ExcHandler(t)
        \/ ErrEmitResume(t)

SpecFormat == InitFor(0) /\ [][NextFormat]_vars

\* the text the precedence rule gives for a result
Serializations == {"json", "str"}
HasField(o) ==
    o.kind \in {"dict", "model"}
        /\ (o.message # "missing" \/ o.response # "missing" \/ o.content # "missing")

\* C32 (as claimed): the response text is the field message, else response,
\* else content, else a serialization of the whole result, and the fixed
\* sentence "I'm sorry, I wasn't able to generate a proper response." for
\* a result that is absent or None; formatting never ends the turn in the
\* failure handler.
C32_Extraction ==
    \A t \in TurnIds :
        LET o == task[t].final_output
            text == task[t].text
        IN  o.kind # "unset" =>
              /\ task[t].pc \notin {"exc", "err_emit"}
              /\ ~(\E i \in DOMAIN wire[t] : wire[t][i].type = "error")
              /\ o.kind \in {"absent", "none"} => text = NoProperResponse
              /\ HasField(o) =>
                    text = IF o.message # "missing"
                           THEN FieldText("message", o.message)
                           ELSE IF o.response # "missing"
                           THEN FieldText("response", o.response)
                           ELSE FieldText("content", o.content)
              /\ (o.kind \notin {"absent", "none"} /\ ~HasField(o)) =>
                    text \in Serializations

\* turn t of a socket connection is unfinished and nobody has requested
\* its cancellation
Reachable(t) == InFlight(t) /\ task[t].sid \in Conns /\ ~task[t].cancelling

\* chat_request has created the task of turn t in this step
TaskCreated(t) == task[t].pc = "req_emit" /\ task'[t].pc # "req_emit"

\* a cancel_stream or a disconnect of connection c is handled in this step
CancelArrives(c) ==
    \/ connected[c] /\ ~connected'[c]
    \/ \E k \in 1..MaxCancels :
          cancel_req[k].pc = "unused" /\ cancel_req'[k].pc # "unused"
              /\ cancel_req'[k].sid = c

\* C33: the step of chat_request that creates the turn task also lists it
\* under its connection and leaves it not yet run; every unfinished turn
\* task whose cancellation nobody requested is listed under its own
\* connection and under no other; and a cancel_stream or disconnect of
\* that connection requests its cancellation.
C33_RegisteredWhileReachable ==
    /\ [](\A t \in TurnIds : Reachable(t) =>
            \A c \in Conns : (t \in Listed(active_tasks, c)) <=> (c = task[t].sid))
    /\ [][\A t \in TurnIds :
            /\ TaskCreated(t) =>
                  /\ task'[t].pc = "start"
                  /\ t \in Listed(active_tasks', task[t].sid)
                  /\ wire'[t] = wire[t]
            /\ (Reachable(t) /\ CancelArrives(task[t].sid)) =>
                  task'[t].cancelling /\ task'[t].must_cancel]_vars

\* C33 witness: two turns started on different connections are both
\* listed, one of them not yet run, and a disconnect of the other's
\* connection has reached the other
C33_ListedBeforeFirstRun ==
    \E t \in TurnIds, s \in TurnIds :
        /\ task[t].pc = "start"
        /\ Reachable(t)
        /\ t \in Listed(active_tasks, task[t].sid)
        /\ task[s].sid \in Conns \ {task[t].sid}
        /\ ~connected[task[s].sid]
        /\ task[s].cancelling

\* turn t has appended its final text to the history of its user
ResponseRecorded(t) ==
    \E i \in DOMAIN chat_histories[task[t].user] :
        chat_histories[task[t].user][i] = Msg("assistant", "response", t)

\* C34 (as claimed): a turn's assistant entry is in the history only if
\* its content event was emitted, and a resolved turn whose content event
\* reached the client has its assistant entry in the history (unless the
\* history was cleared).
C34_ContentIffRecorded ==
    \A t \in TurnIds :
        task[t].user \in Users =>
            /\ ResponseRecorded(t) => CountType(t, "content") = 1
            /\ (/\ task[t].pc \in Finished
                /\ clears = 0
                /\ \E i \in DOMAIN wire[t] :
                      wire[t][i].type = "content" /\ wire[t][i].sent)
                  => ResponseRecorded(t)

\* C35 (as claimed): every assistant entry of a history comes after the
\* user entry of the turn that appended it, in the same list.
C35_AssistantAfterUser ==
    \A u \in Users :
        \A i \in DOMAIN chat_histories[u] :
            chat_histories[u][i].role = "assistant" =>
                \E j \in 1..(i - 1) :
                    chat_histories[u][j] = Msg("user", "message", chat_histories[u][i].by)

\* C36 (as claimed): the step of a cancel_stream that appends the
\* cancellation marker appends it to the history of a user who has a turn
\* this cancel_stream cancelled, and changes no other history.
C36_MarkerToCancelledUser ==
    [][\A k \in 1..MaxCancels :
          (cancel_req[k].pc = "ack_emit" /\ cancel_req'[k].pc = "done") =>
              \A u \in Users :
                  chat_histories'[u] # chat_histories[u] =>
                      \E t \in cancel_req[k].cancelled : task[t].user = u]_vars

\* every starting event of turn t is followed by a completed event for the
\* same tool name
StartsCompleted(t) ==
    \A i \in DOMAIN wire[t] :
        (wire[t][i].type = "tool" /\ wire[t][i].status = "starting") =>
            \E j \in (i + 1)..Len(wire[t]) :
                /\ wire[t][j].type = "tool"
                /\ wire[t][j].status = "completed"
                /\ wire[t][j].tool = wire[t][i].tool

\* C37 (as claimed): a turn that has ended, made tool calls, and had every
\* starting notification followed by a completed notification for the same
\* tool name, has no entry left in active_tool_calls.
C37_NoActiveCallLeft ==
    \A t \in TurnIds :
        (/\ task[t].pc = "done"
         /\ CountType(t, "tool") > 0
         /\ StartsCompleted(t)) => run_context[t].active_tool_calls = {}

\* ------------------------------------------------- request validation
\* the data of a chat_request: a mapping or not, the user it names under
\* user_id (NoUser: no such key), and whether it has the key message
Payload(m, u, msg) == [mapping |-> m, user_id |-> u, message |-> msg]

ValidPayloads == { Payload(TRUE, "u1", TRUE) }
InvalidPayloads ==
    { Payload(FALSE, NoUser, FALSE),
      Payload(TRUE, NoUser, TRUE),
      Payload(TRUE, NoUser, FALSE),
      Payload(TRUE, "u2", FALSE) }

\* the key message is not looked for
ValidRequest_no_message_check(p) == p.mapping /\ p.user_id # NoUser

\* `not isinstance(data, dict) or 'user_id' not in data or 'message' not
\* in data`, negated
ValidRequest(p) == p.mapping /\ p.user_id # NoUser /\ p.message

\* the rejection: `await sio.emit('error', {'message': 'Invalid request
\* format'}, room=sid); return`
RejectRequest(c, mt) ==
    /\ running = Idle
    /\ connected[c]
    /\ \E t \in FreshTurn(mt) : \E ok \in EmitOutcomes :
        /\ faults' = IF ok THEN faults ELSE faults - 1
        /\ task' = [task EXCEPT ![t] = [NoTask EXCEPT !.pc = "rejected", !.sid = c]]
        /\ wire' = [wire EXCEPT ![t] =
              Append(@, [Ev("error_event", "", "Invalid", 0) EXCEPT !.sent = ok])]
    /\ UNCHANGED << user_contexts, chat_histories, active_tasks, run_context,
                    cancel_req, connected, running, clears, frames >>

\* chat_request(sid, data) up to its first await
ChatRequestData(c, p, mt) ==
    IF ValidRequest(p) THEN ChatRequest(c, p.user_id, mt) ELSE RejectRequest(c, mt)

\* SpecReject: MaxTurns chat_requests on either connection, each with a
\* valid payload of u1 or with an invalid one, the invalid ones naming no
\* user or u2; the runtime answering without tool calls
NextReject ==
    \/ \E c \in Conns, p \in ValidPayloads \cup InvalidPayloads :
          ChatRequestData(c, p, MaxTurns)
    \/ \E t \in TurnIds : TurnStep(t, {3})

SpecReject == Init /\ [][NextReject]_vars

\* chat_request rejects the request of slot t in this step
Rejects(t) == task[t].pc = "unused" /\ task'[t].pc = "rejected"

\* C38: a chat_request with an invalid payload makes one emit, of an error
\* event, and changes nothing else: no session, no history entry, no task,
\* no registry entry; and nothing ever happens for it afterwards. u2, whom
\* only invalid payloads name, never gets a session, a history or a turn.
C38_InvalidRejected ==
    /\ [][\A t \in TurnIds :
            /\ Rejects(t) =>
                  /\ wire'[t] = << [Ev("error_event", "", "Invalid", 0) EXCEPT
                                       !.sent = wire'[t][1].sent] >>
                  /\ \A s \in TurnIds \ {t} : task'[s] = task[s] /\ wire'[s] = wire[s]
                  /\ UNCHANGED << user_contexts, chat_histories, active_tasks,
                                  run_context, connected, frames >>
            /\ task[t].pc = "rejected" =>
                  task'[t] = task[t] /\ wire'[t] = wire[t]]_vars
    /\ [](/\ user_contexts["u2"] = NoContext
          /\ chat_histories["u2"] = << >>
          /\ \A t \in TurnIds :
                /\ task[t].user # "u2"
                /\ task[t].pc = "rejected" =>
                      \A c \in Conns : t \notin Listed(active_tasks, c))

\* C38 witness: a request was rejected on a connection while a turn
\* started over the same connection is in flight and listed
C38_RejectedBesideTurn ==
    \E t \in TurnIds, s \in TurnIds :
        /\ task[t].pc = "rejected"
        /\ CountType(t, "error_event") = 1
        /\ InFlight(s)
        /\ task[s].sid = task[t].sid
        /\ active_tasks[task[s].sid] = << s >>

====
